---------------------------- MODULE Spec2Model ----------------------------
(***************************************************************************)
(* A model of the chunking and orchestration code of AI-Studio:            *)
(*   create_chunks, generate_notes        (src/src/llm_gen_engine.py)      *)
(*   create_document_chunks, merge_sources (src/src/document_processing.py)*)
(*   extract_keyframes                    (src/src/vision_processing.py)   *)
(*                                                                         *)
(* Each function is one activation record (cc, dc, gn, ms, ek) whose fields*)
(* carry the names of the function's parameters and locals.  Times are     *)
(* whole numbers of seconds, on which the "%.1f" formatting of             *)
(* create_chunks is exact.                                                 *)
(***************************************************************************)
EXTENDS Integers, Sequences, FiniteSets, TLC

VARIABLES cc, dc, gn, ms, ek

vars == <<cc, dc, gn, ms, ek>>

\* Bounds of the explored inputs.
MaxSegs == 3
MaxTime == 3
MaxKfs == 2
MaxDur == 2
MaxPages == 3
MaxWords == 2
MaxBudget == 2
MaxPdfChunks == 2
MaxRpm == 2
MaxFps == 2
MaxInterval == 1
MaxFrames == 4
NPixels == 2
ThresholdScale == 4

\* An optional list argument: Python's None, or a list.
None == [none |-> TRUE, list |-> <<>>]

Some(list) == [none |-> FALSE, list |-> list]

\* Python's truth value of an optional list: None and [] are false.
Truthy(v) == ~v.none /\ v.list # <<>>

\* What a call has returned: nothing yet (or never, when it raised), or a value.
NoResult == [returned |-> FALSE, value |-> <<>>]

Returned(v) == [returned |-> TRUE, value |-> v]

Idle == [pc |-> "idle"]

Min(a, b) == IF a <= b THEN a ELSE b

Max(a, b) == IF a >= b THEN a ELSE b

RECURSIVE SumSeq(_)
SumSeq(s) == IF s = <<>> THEN 0 ELSE Head(s) + SumSeq(Tail(s))

RECURSIVE Flatten(_)
Flatten(ss) == IF ss = <<>> THEN <<>> ELSE Head(ss) \o Flatten(Tail(ss))

(***************************************************************************)
(* str.join: the items with the separator between each two of them.  A     *)
(* string is modelled as the sequence of its pieces.                       *)
(***************************************************************************)
RECURSIVE Join(_, _)
Join(sep, items) ==
    IF items = <<>> THEN <<>>
    ELSE IF Len(items) = 1 THEN <<Head(items)>>
    ELSE <<Head(items), sep>> \o Join(sep, Tail(items))

\* "\n", between the lines (records) of a chunk's text.
NL == [sep |-> "\n"]

\* "\n\n", between the replies (strings) of the final document.
BlankLine == "\n\n"

(***************************************************************************)
(* create_chunks                                                           *)
(***************************************************************************)

\* f"[{segment['start']:.1f}s - {segment['end']:.1f}s]: {segment['text']}"
Fmt(segment) ==
    [line |-> <<"[", segment.start, "s - ", segment.end, "s]: ", segment.text>>]

\* transcript and ('images' in transcript[0] or 'files' in transcript[0])
IsUnified(transcript) ==
    /\ transcript # <<>>
    /\ \/ "images" \in DOMAIN transcript[1]
       \/ "files" \in DOMAIN transcript[1]

\* CloseCond closing only past the duration.
CloseCond_Strict(segment, chunk_start_time, chunk_duration_sec) ==
    segment.end - chunk_start_time > chunk_duration_sec

\* segment['end'] - chunk_start_time >= chunk_duration_sec
CloseCond(segment, chunk_start_time, chunk_duration_sec) ==
    segment.end - chunk_start_time >= chunk_duration_sec

\* the paths of the keyframes with lo <= kf['timestamp'] <= hi, in list order
ImagesInWindow(keyframes, lo, hi) ==
    LET sel == SelectSeq(keyframes, LAMBDA kf : lo <= kf.timestamp /\ kf.timestamp <= hi)
    IN [j \in 1..Len(sel) |-> sel[j].path]

\* the paths of the keyframes with kf['timestamp'] >= lo, in list order
ImagesFrom(keyframes, lo) ==
    LET sel == SelectSeq(keyframes, LAMBDA kf : kf.timestamp >= lo)
    IN [j \in 1..Len(sel) |-> sel[j].path]

VideoChunk(lines, images) ==
    [text |-> Join(NL, lines), images |-> images, files |-> <<>>]

\* The locals before the loop.
ChunkLocals0 ==
    [chunks |-> <<>>, current_chunk_text |-> <<>>, chunk_start_time |-> 0]

(***************************************************************************)
(* One iteration of "for segment in transcript".  current_chunk_images is  *)
(* empty at the start of every iteration, so it is not carried in st.      *)
(***************************************************************************)
SegmentStep(st, segment, keyframes, chunk_duration_sec) ==
    LET text == Append(st.current_chunk_text, Fmt(segment))
    IN IF CloseCond(segment, st.chunk_start_time, chunk_duration_sec)
       THEN [chunks |-> Append(st.chunks,
                         VideoChunk(text,
                             ImagesInWindow(keyframes, st.chunk_start_time, segment.end))),
             current_chunk_text |-> <<>>,
             chunk_start_time |-> segment.end]
       ELSE [st EXCEPT !.current_chunk_text = text]

\* Trailing without the last piece of the lesson.
Trailing_Dropped(st, keyframes) == st.chunks

\* "if current_chunk_text: ..." after the loop, and the returned list.
Trailing(st, keyframes) ==
    IF st.current_chunk_text # <<>>
    THEN Append(st.chunks,
                VideoChunk(st.current_chunk_text,
                           ImagesFrom(keyframes, st.chunk_start_time)))
    ELSE st.chunks

RECURSIVE ChunkLoop(_, _, _, _, _)
ChunkLoop(st, transcript, i, keyframes, chunk_duration_sec) ==
    IF i > Len(transcript) THEN st
    ELSE ChunkLoop(SegmentStep(st, transcript[i], keyframes, chunk_duration_sec),
                   transcript, i + 1, keyframes, chunk_duration_sec)

\* create_chunks as a function of its arguments.
CreateChunks(transcript, keyframes, chunk_duration_sec) ==
    IF IsUnified(transcript) THEN transcript
    ELSE Trailing(ChunkLoop(ChunkLocals0, transcript, 1, keyframes, chunk_duration_sec),
                  keyframes)

\* The (start, end) pairs with end >= start.
Spans == { se \in (0..MaxTime) \X (0..MaxTime) : se[1] <= se[2] }

\* Transcript segments: ordered, non-overlapping, end >= start; the text of
\* the i-th segment is i.
Segments(n) ==
    { [i \in 1..n |-> [start |-> b[i][1], end |-> b[i][2], text |-> i]] :
        b \in { c \in [1..n -> Spans] :
                    \A i \in 2..n : c[i-1][2] <= c[i][1] } }

Transcripts == UNION { Segments(n) : n \in 0..MaxSegs }

\* Keyframe lists: timestamps non-decreasing, one path per keyframe.
KeyframeLists ==
    UNION { { [i \in 1..n |-> [timestamp |-> ts[i], path |-> i]] :
                ts \in { c \in [1..n -> 0..(MaxTime + 1)] :
                            \A i \in 2..n : c[i-1] <= c[i] } }
            : n \in 0..MaxKfs }

InitChunks ==
    /\ dc = Idle /\ gn = Idle /\ ms = Idle /\ ek = Idle
    /\ \E t \in Transcripts, k \in KeyframeLists, d \in 1..MaxDur :
          cc = [pc |-> "loop", transcript |-> t, keyframes |-> k,
                chunk_duration_sec |-> d, i |-> 1, st |-> ChunkLocals0,
                result |-> <<>>]

\* One iteration of the segment loop.
CC_Segment ==
    /\ cc.pc = "loop"
    /\ ~IsUnified(cc.transcript)
    /\ cc.i <= Len(cc.transcript)
    /\ cc' = [cc EXCEPT !.st = SegmentStep(cc.st, cc.transcript[cc.i],
                                           cc.keyframes, cc.chunk_duration_sec),
                        !.i = cc.i + 1]
    /\ UNCHANGED <<dc, gn, ms, ek>>

\* The loop is over: the trailing chunk and the return.
CC_Return ==
    /\ cc.pc = "loop"
    /\ cc.i > Len(cc.transcript)
    /\ cc' = [cc EXCEPT !.pc = "done", !.result = Trailing(cc.st, cc.keyframes)]
    /\ UNCHANGED <<dc, gn, ms, ek>>

NextChunks == CC_Segment \/ CC_Return

SpecChunks == InitChunks /\ [][NextChunks]_vars

(***************************************************************************)
(* create_document_chunks                                                  *)
(*                                                                         *)
(* A document is [parses, pages, bad_page]: parses is whether              *)
(* PyPDF2.PdfReader accepts the file, pages[p] is count_words of the text  *)
(* of page p-1, and bad_page is the page (1-based, 0 for none) on which    *)
(* page.extract_text() raises.  The file stays readable during the call.   *)
(***************************************************************************)

\* The default of estimate_words_per_page's sample_pages.
SamplePages == 10

\* The estimate returned when sampling fails (300.0).
DefaultWordsPerPage == 300

Documents ==
    {[parses |-> FALSE, pages |-> <<>>, bad_page |-> 0]} \cup
    UNION { [parses : {TRUE}, pages : [1..n -> 0..MaxWords], bad_page : 0..n]
            : n \in 0..MaxPages }

\* The chunk of the three whole-document returns: the text names no pages
\* and no word count, the part is the whole file.
WholeDocumentChunk(document_type) ==
    [text |-> [document |-> TRUE],
     files |-> <<[whole |-> TRUE]>>,
     doc_type |-> document_type]

\* A chunk of pages [start_page, end_page): the text says
\* "pagine {start_page + 1}-{end_page}" and the word count, the part is
\* create_pdf_chunk_from_pages(pdf_path, start_page, end_page).
PageChunk(chunk_num, start_page, end_page, words, total_pages, document_type) ==
    [text |-> [chunk_num |-> chunk_num, first |-> start_page + 1,
               last |-> end_page, words |-> words],
     files |-> <<[from |-> start_page, to |-> Min(end_page, total_pages)]>>,
     doc_type |-> document_type]

(***************************************************************************)
(* estimate_words_per_page, as the fraction [num, den] of the float it     *)
(* returns: 0.0 for no pages, 300.0 when a sampled page cannot be read,    *)
(* else total_words / pages_to_sample.                                     *)
(***************************************************************************)
EstimateWordsPerPage(doc) ==
    LET total_pages == Len(doc.pages)
        pages_to_sample == Min(SamplePages, total_pages)
    IN IF ~doc.parses THEN [num |-> DefaultWordsPerPage, den |-> 1]
       ELSE IF total_pages = 0 THEN [num |-> 0, den |-> 1]
       ELSE IF doc.bad_page \in 1..pages_to_sample
            THEN [num |-> DefaultWordsPerPage, den |-> 1]
       ELSE [num |-> SumSeq(SubSeq(doc.pages, 1, pages_to_sample)),
             den |-> pages_to_sample]

\* What makes lines 107-115 raise: the reader rejects the file, the
\* document has no page, or the division by words_per_page = 0.0.
EstimationRaises(doc) ==
    \/ ~doc.parses
    \/ Len(doc.pages) = 0
    \/ EstimateWordsPerPage(doc).num = 0

\* max(1, int(max_words_per_chunk / words_per_page))
PagesPerChunk(max_words_per_chunk, wpp) ==
    Max(1, (max_words_per_chunk * wpp.den) \div wpp.num)

\* int((end_page - start_page) * words_per_page)
EstimatedWords(start_page, end_page, wpp) ==
    ((end_page - start_page) * wpp.num) \div wpp.den

\* What makes extract_text_from_pdf raise (RuntimeError), or line 151.
ExactSetupRaises(doc) ==
    \/ ~doc.parses
    \/ doc.bad_page # 0
    \/ Len(doc.pages) = 0

\* ExactCloseCond testing the page alone, not the running total with it.
ExactCloseCond_PageOnly(current_word_count, page_word_count, max_words_per_chunk) ==
    /\ page_word_count > max_words_per_chunk
    /\ current_word_count > 0

\* current_word_count + page_word_count > max_words_per_chunk and current_word_count > 0
ExactCloseCond(current_word_count, page_word_count, max_words_per_chunk) ==
    /\ current_word_count + page_word_count > max_words_per_chunk
    /\ current_word_count > 0

(***************************************************************************)
(* sum(count_words(t) for t in page_texts): page_texts is the dict         *)
(* {page_num: text}, so t ranges over its integer keys and count_words(t)  *)
(* calls t.split() on an int, which raises AttributeError as soon as there *)
(* is one key.                                                             *)
(***************************************************************************)
TotalWordsRaises(pages) == DOMAIN pages # {}

InitDoc ==
    /\ cc = Idle /\ gn = Idle /\ ms = Idle /\ ek = Idle
    /\ \E d \in Documents, m \in 0..MaxBudget, e \in BOOLEAN, lib \in BOOLEAN,
          t \in {"slides", "notes"} :
          dc = [pc |-> "start", PyPDF2 |-> lib, doc |-> d, document_type |-> t,
                max_words_per_chunk |-> m, requested_estimation |-> e,
                use_estimation |-> e, chunks |-> <<>>, chunk_num |-> 1,
                words_per_page |-> [num |-> 0, den |-> 1], pages_per_chunk |-> 0,
                start_page |-> 0, page_num |-> 0, current_chunk_start |-> 0,
                current_word_count |-> 0, result |-> <<>>]

\* Lines 90-103: without the parser, one chunk holding the whole file.
DC_NoParser ==
    /\ dc.pc = "start"
    /\ ~dc.PyPDF2
    /\ dc' = [dc EXCEPT !.pc = "done",
                        !.chunks = <<WholeDocumentChunk(dc.document_type)>>,
                        !.result = <<WholeDocumentChunk(dc.document_type)>>]
    /\ UNCHANGED <<cc, gn, ms, ek>>

\* Lines 105-117: the estimation branch up to its loop.
DC_EstimationSetup ==
    /\ dc.pc = "start"
    /\ dc.PyPDF2
    /\ dc.use_estimation
    /\ ~EstimationRaises(dc.doc)
    /\ LET wpp == EstimateWordsPerPage(dc.doc)
       IN dc' = [dc EXCEPT !.pc = "est_loop",
                           !.words_per_page = wpp,
                           !.pages_per_chunk = PagesPerChunk(dc.max_words_per_chunk, wpp),
                           !.chunk_num = 1,
                           !.start_page = 0]
    /\ UNCHANGED <<cc, gn, ms, ek>>

\* Lines 142-144: an error of the estimation branch is caught.
DC_EstimationError ==
    /\ dc.pc = "start"
    /\ dc.PyPDF2
    /\ dc.use_estimation
    /\ EstimationRaises(dc.doc)
    /\ dc' = [dc EXCEPT !.pc = "exact", !.use_estimation = FALSE]
    /\ UNCHANGED <<cc, gn, ms, ek>>

\* Lines 118-137: one iteration of range(0, total_pages, pages_per_chunk).
DC_EstimationChunk ==
    /\ dc.pc = "est_loop"
    /\ dc.start_page < Len(dc.doc.pages)
    /\ LET total_pages == Len(dc.doc.pages)
           end_page == Min(dc.start_page + dc.pages_per_chunk, total_pages)
       IN dc' = [dc EXCEPT
                    !.chunks = Append(dc.chunks,
                        PageChunk(dc.chunk_num, dc.start_page, end_page,
                                  EstimatedWords(dc.start_page, end_page, dc.words_per_page),
                                  total_pages, dc.document_type)),
                    !.chunk_num = dc.chunk_num + 1,
                    !.start_page = dc.start_page + dc.pages_per_chunk]
    /\ UNCHANGED <<cc, gn, ms, ek>>

\* Lines 139-140.
DC_EstimationReturn ==
    /\ dc.pc = "est_loop"
    /\ dc.start_page >= Len(dc.doc.pages)
    /\ dc' = [dc EXCEPT !.pc = "done", !.result = dc.chunks]
    /\ UNCHANGED <<cc, gn, ms, ek>>

\* Line 105 with use_estimation false on entry.
DC_SkipEstimation ==
    /\ dc.pc = "start"
    /\ dc.PyPDF2
    /\ ~dc.use_estimation
    /\ dc' = [dc EXCEPT !.pc = "exact"]
    /\ UNCHANGED <<cc, gn, ms, ek>>

\* Lines 146-155: the exact branch up to its loop.
DC_ExactSetup ==
    /\ dc.pc = "exact"
    /\ ~ExactSetupRaises(dc.doc)
    /\ dc' = [dc EXCEPT !.pc = "exact_loop",
                        !.current_chunk_start = 0,
                        !.current_word_count = 0,
                        !.chunk_num = 1,
                        !.page_num = 0]
    /\ UNCHANGED <<cc, gn, ms, ek>>

\* ExactFallback returning nothing.
ExactFallback_Empty(document_type) == <<>>

\* Lines 200-213: the handler of the exact branch returns a new list of one
\* whole-document chunk.
ExactFallback(document_type) == <<WholeDocumentChunk(document_type)>>

\* Lines 147-151 raise.
DC_ExactSetupError ==
    /\ dc.pc = "exact"
    /\ ExactSetupRaises(dc.doc)
    /\ dc' = [dc EXCEPT !.pc = "done", !.result = ExactFallback(dc.document_type)]
    /\ UNCHANGED <<cc, gn, ms, ek>>

\* Lines 157-179: one iteration of "for page_num in range(total_pages)".
DC_ExactPage ==
    /\ dc.pc = "exact_loop"
    /\ dc.page_num < Len(dc.doc.pages)
    /\ LET page_word_count == dc.doc.pages[dc.page_num + 1]
       IN IF ExactCloseCond(dc.current_word_count, page_word_count,
                            dc.max_words_per_chunk)
          THEN dc' = [dc EXCEPT
                        !.chunks = Append(dc.chunks,
                            PageChunk(dc.chunk_num, dc.current_chunk_start, dc.page_num,
                                      dc.current_word_count, Len(dc.doc.pages),
                                      dc.document_type)),
                        !.current_chunk_start = dc.page_num,
                        !.current_word_count = page_word_count,
                        !.chunk_num = dc.chunk_num + 1,
                        !.page_num = dc.page_num + 1]
          ELSE dc' = [dc EXCEPT
                        !.current_word_count = dc.current_word_count + page_word_count,
                        !.page_num = dc.page_num + 1]
    /\ UNCHANGED <<cc, gn, ms, ek>>

\* Lines 181-194: the last chunk.
DC_ExactTail ==
    /\ dc.pc = "exact_loop"
    /\ dc.page_num >= Len(dc.doc.pages)
    /\ dc' = [dc EXCEPT
                !.pc = "exact_totals",
                !.chunks = IF dc.current_chunk_start < Len(dc.doc.pages)
                           THEN Append(dc.chunks,
                                    PageChunk(dc.chunk_num, dc.current_chunk_start,
                                              Len(dc.doc.pages), dc.current_word_count,
                                              Len(dc.doc.pages), dc.document_type))
                           ELSE dc.chunks]
    /\ UNCHANGED <<cc, gn, ms, ek>>

\* Lines 196-198, and 200-213 when the total raises.
DC_ExactTotals ==
    /\ dc.pc = "exact_totals"
    /\ dc' = [dc EXCEPT !.pc = "done",
                        !.result = IF TotalWordsRaises(dc.doc.pages)
                                   THEN ExactFallback(dc.document_type)
                                   ELSE dc.chunks]
    /\ UNCHANGED <<cc, gn, ms, ek>>

NextDoc ==
    \/ DC_NoParser
    \/ DC_EstimationSetup
    \/ DC_EstimationError
    \/ DC_EstimationChunk
    \/ DC_EstimationReturn
    \/ DC_SkipEstimation
    \/ DC_ExactSetup
    \/ DC_ExactSetupError
    \/ DC_ExactPage
    \/ DC_ExactTail
    \/ DC_ExactTotals

SpecDoc == InitDoc /\ [][NextDoc]_vars

(***************************************************************************)
(* generate_notes                                                          *)
(*                                                                         *)
(* gn.sent is the list of the requests the generation service has          *)
(* received (the contents argument of each generate_content call), and     *)
(* gn.sleeps the number of time.sleep calls made and gn.waited the time    *)
(* each of them was asked to wait, as the fraction num / den of a second.  *)
(***************************************************************************)

\* The texts the service may answer with.
Replies == {"a", "b"}

\* The empty-transcript test letting every transcript through.
EmptyTranscript_Never(transcript) == FALSE

\* not transcript
EmptyTranscript(transcript) == transcript = <<>>

\* not all('text' in seg for seg in transcript)
Malformed(transcript) ==
    \E i \in 1..Len(transcript) : "text" \notin DOMAIN transcript[i]

\* _load_text_file: "" when the file does not exist, else its content.
LoadTextFile(exists, content) == IF exists THEN content ELSE <<>>

\* types.Part(text=f"=== CHUNK {idx + 1} di {len(chunks)} ===\nTrascrizione:\n{chunk['text']}")
TextPart(idx, chunks) ==
    [text |-> <<"CHUNK", idx + 1, "di", Len(chunks), chunks[idx + 1].text>>]

\* Lines 137-149: the image parts that could be read, then the file parts.
Parts(idx, chunks, readable) ==
    LET chunk == chunks[idx + 1]
        images == IF "images" \in DOMAIN chunk THEN chunk.images ELSE <<>>
        files == IF "files" \in DOMAIN chunk THEN chunk.files ELSE <<>>
        read == SelectSeq(images, LAMBDA img : img \in readable)
    IN <<TextPart(idx, chunks)>>
       \o [j \in 1..Len(read) |-> [image |-> read[j]]]
       \o [j \in 1..Len(files) |-> [file |-> files[j]]]

UserContent(parts) == [role |-> "user", parts |-> parts]

ModelContent(response_text) == [role |-> "model", parts |-> <<[text |-> response_text]>>]

\* Contents without the history.
Contents_NoHistory(chat_history, parts) == <<UserContent(parts)>>

\* contents = chat_history + [types.Content(role='user', parts=parts)]
Contents(chat_history, parts) == chat_history \o <<UserContent(parts)>>

\* ApiFailure going on with the next chunk ("except: continue").
ApiFailure_Skips(g) == [g EXCEPT !.idx = g.idx + 1]

\* Lines 162-163: the call raised; RuntimeError leaves generate_notes.
ApiFailure(g) == [g EXCEPT !.pc = "raised", !.error = "RuntimeError"]

\* Lines 161-169: the reply is recorded.
ApiSuccess(g, parts, response_text) ==
    [g EXCEPT !.final_latex_document = Append(g.final_latex_document, response_text),
              !.chat_history = g.chat_history
                               \o <<UserContent(parts), ModelContent(response_text)>>]

\* Lines 172-174: idx < len(chunks) - 1
SleepCond_Always(idx, chunks) == TRUE

SleepCond(idx, chunks) == idx < Len(chunks) - 1

\* The 60 of wait_time = 60 / config.rpm.
SecondsPerMinute == 60

\* wait_time = 60 / config.rpm, for rpm # 0.
WaitTime(rpm) == [num |-> SecondsPerMinute, den |-> rpm]

\* 60 / config.rpm raises ZeroDivisionError.
WaitRaises(rpm) == rpm = 0

\* The transcripts given to generate_notes: segment i spans [i-1, i].
GenWellFormed == { t \in Transcripts : \A i \in 1..Len(t) : t[i].start = i - 1 /\ t[i].end = i }

\* The same with one entry that has no 'text' key.
GenMalformed ==
    { [i \in 1..Len(t) |-> IF i = b THEN [start |-> t[i].start, end |-> t[i].end] ELSE t[i]]
      : <<t, b>> \in { tb \in GenWellFormed \X (1..MaxSegs) : tb[2] <= Len(tb[1]) } }

GenKeyframes == { k \in KeyframeLists : Len(k) <= 1 }

InitGen ==
    /\ cc = Idle /\ dc = Idle /\ ms = Idle /\ ek = Idle
    /\ \E t \in GenWellFormed \cup GenMalformed, k \in GenKeyframes,
          d \in 1..MaxDur, p \in BOOLEAN, r \in 0..MaxRpm :
          gn = [pc |-> "validate", transcript |-> t, keyframes |-> k,
                chunk_duration_sec |-> d, prompt_exists |-> p, rpm |-> r,
                client |-> FALSE, system_instruction |-> <<>>, prompt_loaded |-> FALSE,
                chunks |-> <<>>, idx |-> 0, final_latex_document |-> <<>>,
                chat_history |-> <<>>, sent |-> <<>>, sleeps |-> 0, waited |-> <<>>,
                error |-> "", result |-> NoResult]

\* Lines 81-85: ValueError on an empty or malformed transcript.
GN_Reject ==
    /\ gn.pc = "validate"
    /\ EmptyTranscript(gn.transcript) \/ Malformed(gn.transcript)
    /\ gn' = [gn EXCEPT !.pc = "raised", !.error = "ValueError"]
    /\ UNCHANGED <<cc, dc, ms, ek>>

\* Lines 87-130: the client, the prompt, the chunks.
GN_Prepare ==
    /\ gn.pc = "validate"
    /\ ~EmptyTranscript(gn.transcript)
    /\ ~Malformed(gn.transcript)
    /\ gn' = [gn EXCEPT !.pc = "turn",
                        !.client = TRUE,
                        !.prompt_loaded = TRUE,
                        !.system_instruction = LoadTextFile(gn.prompt_exists, <<"prompt">>),
                        !.chunks = CreateChunks(gn.transcript, gn.keyframes,
                                                gn.chunk_duration_sec),
                        !.idx = 0]
    /\ UNCHANGED <<cc, dc, ms, ek>>

\* Lines 132-169 for one chunk, the service answering response_text.
GN_Turn ==
    /\ gn.pc = "turn"
    /\ gn.idx < Len(gn.chunks)
    /\ \E readable \in SUBSET {gn.keyframes[j].path : j \in 1..Len(gn.keyframes)},
          response_text \in Replies :
          LET parts == Parts(gn.idx, gn.chunks, readable)
              g == [gn EXCEPT !.sent = Append(gn.sent, Contents(gn.chat_history, parts))]
              h == ApiSuccess(g, parts, response_text)
          IN gn' = IF SleepCond(gn.idx, gn.chunks)
                   THEN [h EXCEPT !.pc = "sleep"]
                   ELSE [h EXCEPT !.idx = gn.idx + 1]
    /\ UNCHANGED <<cc, dc, ms, ek>>

\* Lines 132-163 for one chunk, the call to the service raising.
GN_TurnFails ==
    /\ gn.pc = "turn"
    /\ gn.idx < Len(gn.chunks)
    /\ \E readable \in SUBSET {gn.keyframes[j].path : j \in 1..Len(gn.keyframes)} :
          LET parts == Parts(gn.idx, gn.chunks, readable)
              g == [gn EXCEPT !.sent = Append(gn.sent, Contents(gn.chat_history, parts))]
          IN gn' = ApiFailure(g)
    /\ UNCHANGED <<cc, dc, ms, ek>>

\* Lines 173-174: time.sleep(60 / config.rpm), then the next iteration.
GN_Sleep ==
    /\ gn.pc = "sleep"
    /\ ~WaitRaises(gn.rpm)
    /\ gn' = [gn EXCEPT !.pc = "turn", !.sleeps = gn.sleeps + 1,
                        !.waited = Append(gn.waited, WaitTime(gn.rpm)),
                        !.idx = gn.idx + 1]
    /\ UNCHANGED <<cc, dc, ms, ek>>

\* Line 173 with config.rpm = 0: the division raises, outside the try.
GN_WaitFails ==
    /\ gn.pc = "sleep"
    /\ WaitRaises(gn.rpm)
    /\ gn' = [gn EXCEPT !.pc = "raised", !.error = "ZeroDivisionError"]
    /\ UNCHANGED <<cc, dc, ms, ek>>

\* Line 176.
GN_Return ==
    /\ gn.pc = "turn"
    /\ gn.idx >= Len(gn.chunks)
    /\ gn' = [gn EXCEPT !.pc = "returned",
                        !.result = Returned(Join(BlankLine, gn.final_latex_document))]
    /\ UNCHANGED <<cc, dc, ms, ek>>

NextGen ==
    \/ GN_Reject
    \/ GN_Prepare
    \/ GN_Turn
    \/ GN_TurnFails
    \/ GN_Sleep
    \/ GN_WaitFails
    \/ GN_Return

SpecGen == InitGen /\ [][NextGen]_vars

(***************************************************************************)
(* merge_sources                                                           *)
(***************************************************************************)

\* NoSource with "all" for "any".
NoSource_NotAll(video_transcript, pdf_chunks) ==
    ~(Truthy(video_transcript) /\ Truthy(pdf_chunks))

\* not any([video_transcript, pdf_chunks])
NoSource(video_transcript, pdf_chunks) ==
    ~(Truthy(video_transcript) \/ Truthy(pdf_chunks))

\* chunk.get("doc_type", "slides")
DocTypeOf(chunk) == IF "doc_type" \in DOMAIN chunk THEN chunk.doc_type ELSE "slides"

\* Lines 263-278.
HasVideo(video_transcript, video_keyframes) ==
    Truthy(video_transcript) /\ Truthy(video_keyframes)

VideoUnified(video_transcript, video_keyframes, chunk_duration_sec) ==
    IF HasVideo(video_transcript, video_keyframes)
    THEN LET video_chunks == CreateChunks(video_transcript.list, video_keyframes.list,
                                          chunk_duration_sec)
         IN [j \in 1..Len(video_chunks) |->
                [text |-> video_chunks[j].text, images |-> video_chunks[j].images,
                 files |-> <<>>]]
    ELSE <<>>

\* PdfUnified with the document chunks in reverse order.
PdfUnified_Reversed(pdf_chunks) ==
    IF Truthy(pdf_chunks)
    THEN [j \in 1..Len(pdf_chunks.list) |->
            LET chunk == pdf_chunks.list[Len(pdf_chunks.list) + 1 - j]
            IN [text |-> chunk.text, images |-> <<>>, files |-> chunk.files,
                doc_type |-> DocTypeOf(chunk)]]
    ELSE <<>>

\* Lines 280-290.
PdfUnified(pdf_chunks) ==
    IF Truthy(pdf_chunks)
    THEN [j \in 1..Len(pdf_chunks.list) |->
            [text |-> pdf_chunks.list[j].text, images |-> <<>>,
             files |-> pdf_chunks.list[j].files,
             doc_type |-> DocTypeOf(pdf_chunks.list[j])]]
    ELSE <<>>

PdfTypesPresent(pdf_chunks) ==
    IF Truthy(pdf_chunks)
    THEN { DocTypeOf(pdf_chunks.list[j]) : j \in 1..Len(pdf_chunks.list) }
    ELSE {}

\* Lines 260-292: " + ".join(sources)
SourceDescription(video_transcript, video_keyframes, pdf_chunks) ==
    Join(" + ", (IF HasVideo(video_transcript, video_keyframes)
                 THEN <<"videolezione">> ELSE <<>>)
                \o (IF Truthy(pdf_chunks) THEN <<"documenti PDF">> ELSE <<>>))

\* InputMode taking any notes-typed chunk for notes only.
InputMode_NotesWins(has_video, pdf_types_present, pdf_chunks) ==
    IF has_video THEN "video"
    ELSE IF "notes" \in pdf_types_present THEN "only_notes"
    ELSE IF "slides" \in pdf_types_present THEN "only_slides"
    ELSE IF Truthy(pdf_chunks) THEN "mixed_pdf"
    ELSE "video"

\* Lines 294-304.
InputMode(has_video, pdf_types_present, pdf_chunks) ==
    IF has_video THEN "video"
    ELSE IF "notes" \in pdf_types_present /\ "slides" \notin pdf_types_present
         THEN "only_notes"
    ELSE IF "slides" \in pdf_types_present /\ "notes" \notin pdf_types_present
         THEN "only_slides"
    ELSE IF Truthy(pdf_chunks) THEN "mixed_pdf"
    ELSE "video"

\* The returned tuple (unified_chunks, source_description, input_mode).
MergeSources(video_transcript, video_keyframes, pdf_chunks, chunk_duration_sec) ==
    [unified_chunks |->
        VideoUnified(video_transcript, video_keyframes, chunk_duration_sec)
        \o PdfUnified(pdf_chunks),
     source_description |->
        SourceDescription(video_transcript, video_keyframes, pdf_chunks),
     input_mode |->
        InputMode(HasVideo(video_transcript, video_keyframes),
                  PdfTypesPresent(pdf_chunks), pdf_chunks)]

\* The document chunks given to merge_sources: the j-th has text j and one
\* file part j; its doc_type is slides, notes, or absent.
PdfChunkLists ==
    UNION { { [j \in 1..n |->
                 IF ty[j] = "absent"
                 THEN [text |-> j, files |-> <<j>>]
                 ELSE [text |-> j, files |-> <<j>>, doc_type |-> ty[j]]]
              : ty \in [1..n -> {"slides", "notes", "absent"}] }
            : n \in 0..MaxPdfChunks }

Optional(lists) == {None} \cup { Some(l) : l \in lists }

InitMerge ==
    /\ cc = Idle /\ dc = Idle /\ gn = Idle /\ ek = Idle
    /\ \E t \in Optional(GenWellFormed), k \in Optional(GenKeyframes),
          p \in Optional(PdfChunkLists), d \in 1..MaxDur :
          ms = [pc |-> "call", video_transcript |-> t, video_keyframes |-> k,
                pdf_chunks |-> p, chunk_duration_sec |-> d,
                error |-> "", result |-> NoResult]

\* Lines 256-257: ValueError when no source is given.
MS_Reject ==
    /\ ms.pc = "call"
    /\ NoSource(ms.video_transcript, ms.pdf_chunks)
    /\ ms' = [ms EXCEPT !.pc = "raised", !.error = "ValueError"]
    /\ UNCHANGED <<cc, dc, gn, ek>>

\* Lines 259-306.
MS_Return ==
    /\ ms.pc = "call"
    /\ ~NoSource(ms.video_transcript, ms.pdf_chunks)
    /\ ms' = [ms EXCEPT !.pc = "returned",
                        !.result = Returned(MergeSources(ms.video_transcript,
                                                         ms.video_keyframes,
                                                         ms.pdf_chunks,
                                                         ms.chunk_duration_sec))]
    /\ UNCHANGED <<cc, dc, gn, ek>>

NextMerge == MS_Reject \/ MS_Return

SpecMerge == InitMerge /\ [][NextMerge]_vars

(***************************************************************************)
(* extract_keyframes                                                       *)
(*                                                                         *)
(* A blurred gray frame is the set of its bright pixels, out of NPixels;   *)
(* a bright and a dark pixel differ by more than pixel_threshold, two      *)
(* bright or two dark ones by less.  threshold is a number of              *)
(* ThresholdScale-ths, and a timestamp the fraction num / den of a second. *)
(* ek.saved is the set of image files written, ek.selected the calls of    *)
(* _save_keyframe made (timestamp, frame, and whether the write            *)
(* succeeded), ek.gray the last sampled frame.                             *)
(***************************************************************************)

\* prev_frame = None, or a frame.
NoFrame == [none |-> TRUE, pixels |-> {}]

SomeFrame(pixels) == [none |-> FALSE, pixels |-> pixels]

Frames == SUBSET (1..NPixels)

\* 0 < threshold < 1 accepting the two ends.
ThresholdValid_Closed(threshold) == 0 <= threshold /\ threshold <= ThresholdScale

\* 0 < threshold < 1
ThresholdValid(threshold) == 0 < threshold /\ threshold < ThresholdScale

\* int(fps * config.frame_sample_interval)
FrameInterval(fps, frame_sample_interval) == fps * frame_sample_interval

\* The timestamp of the frame after the one sampled.
Timestamp_Next(frame_count, fps) == [num |-> frame_count + 1, den |-> fps]

\* timestamp = frame_count / fps
Timestamp(frame_count, fps) == [num |-> frame_count, den |-> fps]

\* f"{timestamp:.0f}": the nearest whole number, a tie going to the even one.
RoundHalfEven(timestamp) ==
    LET q == timestamp.num \div timestamp.den
        r == timestamp.num % timestamp.den
    IN IF 2 * r < timestamp.den THEN q
       ELSE IF 2 * r > timestamp.den THEN q + 1
       ELSE IF q % 2 = 0 THEN q ELSE q + 1

\* frame_name = f"{output_dir}/slide_{timestamp:.0f}s.jpg"
FrameName(timestamp) == [slide |-> RoundHalfEven(timestamp)]

\* cv2.countNonZero(thresh): the pixels that differ by more than pixel_threshold.
CountNonZero(prev_frame, gray) ==
    Cardinality((prev_frame \ gray) \cup (gray \ prev_frame))

\* change_ratio > threshold, with change_ratio = countNonZero / (rows * columns)
Changed(prev_frame, gray, threshold) ==
    CountNonZero(prev_frame, gray) * ThresholdScale > threshold * NPixels

\* _save_keyframe appending whether or not the image was written.
SaveKeyframe_AlwaysAppends(e, timestamp, gray, success) ==
    [e EXCEPT !.keyframes = Append(e.keyframes,
                                   [timestamp |-> timestamp, path |-> FrameName(timestamp)]),
              !.saved = IF success THEN e.saved \cup {FrameName(timestamp)} ELSE e.saved,
              !.selected = Append(e.selected,
                                  [timestamp |-> timestamp, frame |-> gray, ok |-> success])]

\* _save_keyframe: the image is written and the keyframe appended, or the
\* failure is caught and printed.
SaveKeyframe(e, timestamp, gray, success) ==
    [e EXCEPT !.keyframes = IF success
                            THEN Append(e.keyframes,
                                        [timestamp |-> timestamp,
                                         path |-> FrameName(timestamp)])
                            ELSE e.keyframes,
              !.saved = IF success THEN e.saved \cup {FrameName(timestamp)} ELSE e.saved,
              !.selected = Append(e.selected,
                                  [timestamp |-> timestamp, frame |-> gray, ok |-> success])]

\* The comparison base following every sampled frame.
NextBase_LastSampled(prev_frame, gray, emitted) == SomeFrame(gray)

\* prev_frame after a sampled frame: "prev_frame = gray" stands under the
\* same condition as the call of _save_keyframe.
NextBase(prev_frame, gray, emitted) ==
    IF emitted THEN SomeFrame(gray) ELSE prev_frame

InitVision ==
    /\ cc = Idle /\ dc = Idle /\ gn = Idle /\ ms = Idle
    /\ \E x \in BOOLEAN, m \in BOOLEAN, o \in BOOLEAN,
          t \in (-1)..(ThresholdScale + 1), f \in 1..MaxFps, s \in 0..MaxInterval :
          ek = [pc |-> "call", video_exists |-> x, mkdir_ok |-> m, decodable |-> o,
                threshold |-> t, fps |-> f, frame_sample_interval |-> s,
                dir_created |-> FALSE, opened |-> FALSE, frame_interval |-> 0,
                keyframes |-> <<>>, prev_frame |-> NoFrame, frame_count |-> 0,
                gray |-> {}, saved |-> {}, selected |-> <<>>,
                error |-> "", result |-> NoResult]

\* Lines 22-23.
EK_NotFound ==
    /\ ek.pc = "call"
    /\ ~ek.video_exists
    /\ ek' = [ek EXCEPT !.pc = "raised", !.error = "FileNotFoundError"]
    /\ UNCHANGED <<cc, dc, gn, ms>>

\* Lines 31-32.
EK_BadThreshold ==
    /\ ek.pc = "call"
    /\ ek.video_exists
    /\ ~ThresholdValid(ek.threshold)
    /\ ek' = [ek EXCEPT !.pc = "raised", !.error = "ValueError"]
    /\ UNCHANGED <<cc, dc, gn, ms>>

\* Lines 34-37: os.makedirs raises OSError.
EK_MkdirFails ==
    /\ ek.pc = "call"
    /\ ek.video_exists
    /\ ThresholdValid(ek.threshold)
    /\ ~ek.mkdir_ok
    /\ ek' = [ek EXCEPT !.pc = "raised", !.error = "RuntimeError"]
    /\ UNCHANGED <<cc, dc, gn, ms>>

\* Lines 34-47: the directory, the capture, the locals.
EK_Open ==
    /\ ek.pc = "call"
    /\ ek.video_exists
    /\ ThresholdValid(ek.threshold)
    /\ ek.mkdir_ok
    /\ ek' = [ek EXCEPT !.pc = "loop",
                        !.dir_created = TRUE,
                        !.opened = TRUE,
                        !.frame_interval = FrameInterval(ek.fps, ek.frame_sample_interval),
                        !.keyframes = <<>>,
                        !.prev_frame = NoFrame,
                        !.frame_count = 0]
    /\ UNCHANGED <<cc, dc, gn, ms>>

\* cap.isOpened() and cap.read() gave a frame.
FrameRead == ek.pc = "loop" /\ ek.decodable /\ ek.frame_count < MaxFrames

\* Line 56 with frame_interval = 0: the modulo raises.
EK_IntervalZero ==
    /\ FrameRead
    /\ ek.frame_interval = 0
    /\ ek' = [ek EXCEPT !.pc = "raised", !.error = "ZeroDivisionError"]
    /\ UNCHANGED <<cc, dc, gn, ms>>

\* Lines 50-56 and 85: a frame that is not sampled.
EK_Skip ==
    /\ FrameRead
    /\ ek.frame_interval # 0
    /\ ek.frame_count % ek.frame_interval # 0
    /\ ek' = [ek EXCEPT !.frame_count = ek.frame_count + 1]
    /\ UNCHANGED <<cc, dc, gn, ms>>

\* Lines 56-68 and 85: the first sampled frame.
EK_First ==
    /\ FrameRead
    /\ ek.frame_interval # 0
    /\ ek.frame_count % ek.frame_interval = 0
    /\ ek.prev_frame.none
    /\ \E gray \in Frames, success \in BOOLEAN :
          LET e == SaveKeyframe(ek, Timestamp(ek.frame_count, ek.fps), gray, success)
          IN ek' = [e EXCEPT !.gray = gray,
                             !.prev_frame = SomeFrame(gray),
                             !.frame_count = ek.frame_count + 1]
    /\ UNCHANGED <<cc, dc, gn, ms>>

\* Lines 56-63, 69-85: a later sampled frame.
EK_Compare ==
    /\ FrameRead
    /\ ek.frame_interval # 0
    /\ ek.frame_count % ek.frame_interval = 0
    /\ ~ek.prev_frame.none
    /\ \E gray \in Frames, success \in BOOLEAN :
          LET emitted == Changed(ek.prev_frame.pixels, gray, ek.threshold)
              e == IF emitted
                   THEN SaveKeyframe(ek, Timestamp(ek.frame_count, ek.fps), gray, success)
                   ELSE ek
          IN ek' = [e EXCEPT !.gray = gray,
                             !.prev_frame = NextBase(ek.prev_frame, gray, emitted),
                             !.frame_count = ek.frame_count + 1]
    /\ UNCHANGED <<cc, dc, gn, ms>>

\* Lines 49-52, 87-88: the capture is not open or has no more frames.
EK_Return ==
    /\ ek.pc = "loop"
    /\ ek' = [ek EXCEPT !.pc = "returned", !.opened = FALSE,
                        !.result = Returned(ek.keyframes)]
    /\ UNCHANGED <<cc, dc, gn, ms>>

NextVision ==
    \/ EK_NotFound
    \/ EK_BadThreshold
    \/ EK_MkdirFails
    \/ EK_Open
    \/ EK_IntervalZero
    \/ EK_Skip
    \/ EK_First
    \/ EK_Compare
    \/ EK_Return

SpecVision == InitVision /\ [][NextVision]_vars

(***************************************************************************)
(* The claims                                                              *)
(***************************************************************************)

\* The lines of a chunk's text: its pieces between the "\n".
Lines(text) == SelectSeq(text, LAMBDA e : e # NL)

\* The lines of all the chunks, read in order.
ChunkLines(chunks) == Flatten([j \in 1..Len(chunks) |-> Lines(chunks[j].text)])

\* The chunks whose images hold the path.
ChunksHolding(chunks, path) ==
    { j \in 1..Len(chunks) :
        \E m \in 1..Len(chunks[j].images) : chunks[j].images[m] = path }

\* C1: the chunks create_chunks returns, read in order, hold the formatted
\* text of every segment exactly once and in the order of the transcript.
C1_SegmentsOnceInOrder ==
    cc.pc = "done" =>
        ChunkLines(cc.result) = [i \in 1..Len(cc.transcript) |-> Fmt(cc.transcript[i])]

\* Three segments in two chunks.
C1_Witness ==
    /\ cc.pc = "done"
    /\ Len(cc.transcript) = 3
    /\ Len(cc.result) = 2

\* C2: in the output of create_chunks no keyframe is attached to two
\* chunks; one on the boundary of two chunks goes to the earlier only.
C2_KeyframeInAtMostOneChunk ==
    cc.pc = "done" =>
        \A k \in 1..Len(cc.keyframes) :
            Cardinality(ChunksHolding(cc.result, cc.keyframes[k].path)) <= 1

\* C3: for a non-empty transcript every keyframe is attached to at least
\* one chunk, also one later than the end of the chunk the last segment closed.
C3_EveryKeyframeAttached ==
    (cc.pc = "done" /\ cc.transcript # <<>>) =>
        \A k \in 1..Len(cc.keyframes) :
            ChunksHolding(cc.result, cc.keyframes[k].path) # {}

\* A document the parser reads completely, with at least one page.
Parseable(d) ==
    /\ d.PyPDF2
    /\ d.doc.parses
    /\ d.doc.bad_page = 0
    /\ Len(d.doc.pages) >= 1

\* The chunks are page chunks whose ranges split pages 0..n-1 in order.
PartitionsPages(chunks, n) ==
    /\ chunks # <<>>
    /\ \A j \in 1..Len(chunks) :
          /\ "from" \in DOMAIN chunks[j].files[1]
          /\ chunks[j].files[1].from < chunks[j].files[1].to
          /\ chunks[j].files[1].from = IF j = 1 THEN 0 ELSE chunks[j-1].files[1].to
          /\ chunks[j].text.first = chunks[j].files[1].from + 1
          /\ chunks[j].text.last = chunks[j].files[1].to
    /\ chunks[Len(chunks)].files[1].to = n

\* C4: for a document of at least one page and a positive budget, in
\* estimation mode and in exact mode, the page ranges of the returned chunks split 0..total_pages-1 with
\* no gap, no overlap and no empty range.
C4_PageRangesPartition ==
    (dc.pc = "done" /\ Parseable(dc) /\ dc.max_words_per_chunk > 0) =>
        PartitionsPages(dc.result, Len(dc.doc.pages))

\* The words on the pages of a page chunk.
WordsOnPages(doc, chunk) ==
    SumSeq(SubSeq(doc.pages, chunk.files[1].from + 1, chunk.files[1].to))

\* C5, as claimed: every chunk the page loop of the exact mode closes has
\* at most max_words_per_chunk words on its pages.
C5_ClosedChunksWithinBudget ==
    dc.pc = "exact_loop" =>
        \A j \in 1..Len(dc.chunks) :
            WordsOnPages(dc.doc, dc.chunks[j]) <= dc.max_words_per_chunk

\* C5, amended: every chunk the page loop of the exact mode closes has at
\* most max_words_per_chunk words on its pages, unless all its words are on
\* its last page and that page alone exceeds the budget.
C5_ClosedChunksWithinBudgetOrOnePage ==
    dc.pc = "exact_loop" =>
        \A j \in 1..Len(dc.chunks) :
            LET words == WordsOnPages(dc.doc, dc.chunks[j])
                last_page == dc.doc.pages[dc.chunks[j].files[1].to]
            IN /\ dc.chunks[j].text.words = words
               /\ \/ words <= dc.max_words_per_chunk
                  \/ last_page > dc.max_words_per_chunk /\ words = last_page

\* A closed chunk of two pages over the budget, and one within it.
C5_Witness ==
    /\ dc.pc = "exact_loop"
    /\ \E j \in 1..Len(dc.chunks) :
          /\ WordsOnPages(dc.doc, dc.chunks[j]) > dc.max_words_per_chunk
          /\ dc.chunks[j].files[1].to - dc.chunks[j].files[1].from = 2

\* C6: the single whole-document chunk is returned only when the document
\* cannot be parsed; a parseable document of at least one page asked for
\* with use_estimation=False gives the page chunks of the exact loop.
C6_WholeDocumentOnlyWhenUnparseable ==
    (dc.pc = "done" /\ Parseable(dc)) =>
        /\ dc.result # <<WholeDocumentChunk(dc.document_type)>>
        /\ ~dc.requested_estimation => dc.result = dc.chunks

\* The exact branch raises in this state.
ExactRaisesNow ==
    \/ dc.pc = "exact" /\ ExactSetupRaises(dc.doc)
    \/ dc.pc = "exact_totals" /\ TotalWordsRaises(dc.doc.pages)

\* C7: an error in the estimation branch is caught and the exact branch
\* runs next; an error in the exact branch is caught and exactly one
\* whole-document chunk is returned; the call always ends, with at least
\* one chunk.
C7_FallbackCascade ==
    /\ [][(dc.pc = "start" /\ dc.PyPDF2 /\ dc.use_estimation /\ EstimationRaises(dc.doc))
            => (dc'.pc = "exact" /\ ~dc'.use_estimation)]_vars
    /\ [][ExactRaisesNow
            => (dc'.pc = "done"
                /\ dc'.result = <<WholeDocumentChunk(dc.document_type)>>)]_vars
    /\ [](dc.pc = "done" => Len(dc.result) >= 1)
    /\ [](dc.pc # "done" => ENABLED NextDoc)

\* A document without pages went through both handlers.
C7_Witness ==
    /\ dc.pc = "done"
    /\ dc.PyPDF2
    /\ dc.requested_estimation
    /\ ~dc.use_estimation
    /\ dc.doc.parses
    /\ Len(dc.doc.pages) = 0
    /\ dc.result = <<WholeDocumentChunk(dc.document_type)>>

\* The step is a call to the service that gave no reply.
FailedCall ==
    /\ Len(gn'.sent) = Len(gn.sent) + 1
    /\ gn'.final_latex_document = gn.final_latex_document

\* C8: a failed call for chunk k ends generate_notes with an error: no
\* retry, no skip, no later turn, no document returned.
C8_ApiFailureIsFatal ==
    /\ [][FailedCall => (gn'.pc = "raised" /\ gn'.error = "RuntimeError")]_vars
    /\ []((gn.pc = "raised" /\ gn.error = "RuntimeError") =>
            /\ ~gn.result.returned
            /\ Len(gn.sent) = gn.idx + 1
            /\ Len(gn.final_latex_document) = gn.idx
            /\ \A j \in 1..Len(gn.sent) :
                  gn.sent[j][Len(gn.sent[j])].parts[1] = TextPart(j - 1, gn.chunks)
            /\ ~ENABLED NextGen)

\* The call for the second chunk failed after a reply to the first.
C8_Witness ==
    /\ gn.pc = "raised"
    /\ gn.error = "RuntimeError"
    /\ gn.idx = 1
    /\ Len(gn.final_latex_document) = 1
    /\ Len(gn.chunks) = 3

IsPrefix(a, b) == Len(a) <= Len(b) /\ SubSeq(b, 1, Len(a)) = a

\* The (user turn, model reply) pairs of chunks 1..k-1, as sent and answered.
PairsBefore(k) ==
    Flatten([j \in 1..(k - 1) |->
                <<gn.sent[j][Len(gn.sent[j])], ModelContent(gn.final_latex_document[j])>>])

\* C9: one turn per chunk in chunk order; the request of the k-th carries
\* the pairs of chunks 1..k-1 and then its own user turn; the history only
\* grows; the returned document is the replies in order joined by "\n\n".
C9_TurnsHistoryAndDocument ==
    /\ [][IsPrefix(gn.chat_history, gn'.chat_history)]_vars
    /\ [](\A k \in 1..Len(gn.sent) :
            /\ k <= Len(gn.chunks)
            /\ Len(gn.sent[k]) = 2 * (k - 1) + 1
            /\ SubSeq(gn.sent[k], 1, 2 * (k - 1)) = PairsBefore(k)
            /\ gn.sent[k][Len(gn.sent[k])].role = "user"
            /\ gn.sent[k][Len(gn.sent[k])].parts[1] = TextPart(k - 1, gn.chunks))
    /\ [](gn.pc = "returned" =>
            /\ Len(gn.sent) = Len(gn.chunks)
            /\ Len(gn.chat_history) = 2 * Len(gn.chunks)
            /\ gn.result = Returned(Join(BlankLine,
                              [k \in 1..Len(gn.chunks) |->
                                  gn.chat_history[2 * k].parts[1].text])))

\* Three chunks answered, not all alike.
C9_Witness ==
    /\ gn.pc = "returned"
    /\ Len(gn.chunks) = 3
    /\ gn.result.value = <<"a", BlankLine, "b", BlankLine, "a">>

\* C10: merge_sources raises a validation error and returns nothing when
\* the transcript and the document chunks are both absent or empty,
\* whatever the keyframes; otherwise it returns.
C10_NoSourceIsRejected ==
    ms.pc # "call" =>
        IF ~Truthy(ms.video_transcript) /\ ~Truthy(ms.pdf_chunks)
        THEN ms.pc = "raised" /\ ms.error = "ValueError" /\ ~ms.result.returned
        ELSE ms.pc = "returned" /\ ms.result.returned

\* Keyframes given, an empty transcript, no document chunks.
C10_Witness ==
    /\ ms.pc = "raised"
    /\ Truthy(ms.video_keyframes)
    /\ ms.video_transcript = Some(<<>>)
    /\ ms.pdf_chunks = None

\* The video source is present: a transcript and keyframes, both non-empty
\* (the "transcript+keyframes present" of the merge).
VideoPresent == Truthy(ms.video_transcript) /\ Truthy(ms.video_keyframes)

\* The doc_types of the document chunks given (slides when a chunk names none).
GivenDocTypes ==
    { IF "doc_type" \in DOMAIN ms.pdf_chunks.list[j]
      THEN ms.pdf_chunks.list[j].doc_type ELSE "slides"
      : j \in 1..Len(ms.pdf_chunks.list) }

C12_VideoThenDocumentsInOrder ==
    ms.pc = "returned" =>
        LET v == IF VideoPresent
                 THEN CreateChunks(ms.video_transcript.list, ms.video_keyframes.list,
                                   ms.chunk_duration_sec)
                 ELSE <<>>
            p == ms.pdf_chunks.list
            u == ms.result.value.unified_chunks
        IN /\ Len(u) = Len(v) + Len(p)
           /\ \A j \in 1..Len(v) :
                 /\ u[j].text = v[j].text
                 /\ u[j].images = v[j].images
                 /\ u[j].files = <<>>
                 /\ "doc_type" \notin DOMAIN u[j]
           /\ \A j \in 1..Len(p) :
                 /\ u[Len(v) + j].text = p[j].text
                 /\ u[Len(v) + j].files = p[j].files
                 /\ u[Len(v) + j].images = <<>>
                 /\ "doc_type" \in DOMAIN p[j] => u[Len(v) + j].doc_type = p[j].doc_type

\* Two transcript chunks, one of them with an image, before a notes chunk
\* and a slides chunk.
C12_Witness ==
    /\ ms.pc = "returned"
    /\ VideoPresent
    /\ Len(ms.result.value.unified_chunks) = 4
    /\ Len(ms.pdf_chunks.list) = 2
    /\ ms.result.value.unified_chunks[1].images # <<>>
    /\ "doc_type" \notin DOMAIN ms.result.value.unified_chunks[2]
    /\ ms.result.value.unified_chunks[3].doc_type = "notes"
    /\ ms.result.value.unified_chunks[4].doc_type = "slides"

\* C13: generate_notes raises ValueError on an empty transcript and on one
\* with an entry that has no text, and has then loaded no prompt, taken no
\* client and sent no turn.
C13_ValidationComesFirst ==
    /\ (gn.pc \notin {"idle", "validate"}
        /\ (\/ Len(gn.transcript) = 0
            \/ \E i \in 1..Len(gn.transcript) : "text" \notin DOMAIN gn.transcript[i]))
       => gn.pc = "raised" /\ gn.error = "ValueError"
    /\ (gn.pc = "raised" /\ gn.error = "ValueError")
       => ~gn.prompt_loaded /\ ~gn.client /\ gn.sent = <<>>

\* A two-entry transcript whose second entry has no text was rejected.
C13_Witness ==
    /\ gn.pc = "raised"
    /\ gn.error = "ValueError"
    /\ Len(gn.transcript) = 2
    /\ "text" \in DOMAIN gn.transcript[1]
    /\ "text" \notin DOMAIN gn.transcript[2]

\* C14: when the prompt file does not exist generate_notes raises, sends
\* no turn and never goes on with an empty system instruction.
C14_MissingPromptIsFatal ==
    (gn.pc # "idle" /\ ~gn.prompt_exists)
       => gn.pc \in {"validate", "raised"} /\ gn.sent = <<>>

\* C19: a run of generate_notes that returns slept len(chunks) - 1 times,
\* each time for 60 / rpm; every sleep follows a turn whose reply and
\* history are recorded and that is not the last, and every turn but the
\* first is sent after the sleep that follows the turn before it.
C19_WaitsBetweenTurns ==
    /\ [](gn.pc = "returned" =>
            /\ gn.sleeps = Len(gn.chunks) - 1
            /\ Len(gn.waited) = gn.sleeps
            /\ \A j \in 1..Len(gn.waited) :
                  gn.waited[j].num = SecondsPerMinute /\ gn.waited[j].den = gn.rpm)
    /\ [][(gn.pc # "idle" /\ gn'.sleeps # gn.sleeps) =>
            /\ gn'.sleeps = gn.sleeps + 1
            /\ Len(gn.final_latex_document) = gn.sleeps + 1
            /\ Len(gn.chat_history) = 2 * (gn.sleeps + 1)
            /\ Len(gn.sent) = gn.sleeps + 1
            /\ Len(gn.sent) < Len(gn.chunks)]_vars
    /\ [][(gn.pc # "idle" /\ gn'.sent # gn.sent) => gn.sleeps = Len(gn.sent)]_vars

\* A run over two chunks returned after one wait of 60 / 2.
C19_Witness ==
    /\ gn.pc = "returned"
    /\ Len(gn.chunks) = 2
    /\ gn.rpm = 2
    /\ gn.waited = <<WaitTime(2)>>

\* The scenario of two segments, the second one ending past the duration.
HelloWorld ==
    /\ cc.transcript = <<[start |-> 0, end |-> 1, text |-> 1],
                         [start |-> 1, end |-> 3, text |-> 2]>>
    /\ cc.chunk_duration_sec = 2

\* C20: create_chunks closes a chunk at a segment exactly when the
\* segment's end minus the chunk's start is at least the duration; the
\* closed chunk ends with that segment and the next chunk starts at the
\* segment's end.  No returned chunk has empty text, no trailing chunk
\* follows a last segment that closed one, and the scenario of two segments
\* gives one chunk holding both.
C20_ClosesAtDuration ==
    /\ [][(cc.pc = "loop" /\ cc'.pc = "loop") =>
            LET segment == cc.transcript[cc.i]
                text == Append(cc.st.current_chunk_text, Fmt(segment))
            IN IF segment.end - cc.st.chunk_start_time >= cc.chunk_duration_sec
               THEN /\ Len(cc'.st.chunks) = Len(cc.st.chunks) + 1
                    /\ SubSeq(cc'.st.chunks, 1, Len(cc.st.chunks)) = cc.st.chunks
                    /\ Lines(cc'.st.chunks[Len(cc'.st.chunks)].text) = text
                    /\ cc'.st.current_chunk_text = <<>>
                    /\ cc'.st.chunk_start_time = segment.end
               ELSE /\ cc'.st.chunks = cc.st.chunks
                    /\ cc'.st.current_chunk_text = text
                    /\ cc'.st.chunk_start_time = cc.st.chunk_start_time]_vars
    /\ [](cc.pc = "done" =>
            /\ \A j \in 1..Len(cc.result) : Lines(cc.result[j].text) # <<>>
            /\ (cc.transcript # <<>> /\ cc.st.current_chunk_text = <<>>)
                  => cc.result = cc.st.chunks
            /\ HelloWorld =>
                  /\ Len(cc.result) = 1
                  /\ Lines(cc.result[1].text)
                        = <<Fmt(cc.transcript[1]), Fmt(cc.transcript[2])>>)

\* The scenario ran to its end, the last segment having closed the chunk.
C20_Witness ==
    /\ cc.pc = "done"
    /\ HelloWorld
    /\ cc.st.current_chunk_text = <<>>
    /\ Len(cc.result) = 1

\* extract_keyframes has saved no image and returned no list.
NothingDone == ek.saved = {} /\ ek.keyframes = <<>> /\ ~ek.result.returned

\* C15: extract_keyframes raises FileNotFoundError when the video does not
\* exist, and ValueError for a threshold that is not strictly between 0 and
\* 1, the directory not created and the video not opened; either way no
\* keyframe is saved and no list returned.
C15_ValidationBeforeSideEffects ==
    ek.pc \notin {"idle", "call"} =>
        /\ ~ek.video_exists =>
              /\ ek.pc = "raised" /\ ek.error = "FileNotFoundError"
              /\ NothingDone
        /\ (ek.video_exists /\ (ek.threshold <= 0 \/ ek.threshold >= ThresholdScale)) =>
              /\ ek.pc = "raised" /\ ek.error = "ValueError"
              /\ ~ek.dir_created /\ ~ek.opened
              /\ NothingDone

\* A threshold of exactly 1 was rejected although the directory could have
\* been created and the video decoded.
C15_Witness ==
    /\ ek.pc = "raised"
    /\ ek.error = "ValueError"
    /\ ek.threshold = ThresholdScale
    /\ ek.mkdir_ok /\ ek.decodable

\* Every returned keyframe's timestamp lies within [0, video_duration], the
\* duration being the number of decoded frames over the frame rate.
WithinDuration ==
    \A j \in 1..Len(ek.keyframes) :
        /\ ek.keyframes[j].timestamp.num >= 0
        /\ ek.keyframes[j].timestamp.num * ek.fps
              <= ek.frame_count * ek.keyframes[j].timestamp.den

C17_ComparesWithLastKept ==
    [][(/\ ek.pc = "loop" /\ ek'.pc = "loop"
        /\ ek'.frame_count = ek.frame_count + 1
        /\ ek.frame_count % ek.frame_interval = 0
        /\ ~ek.prev_frame.none) =>
          LET kept == ek.prev_frame.pixels
              differ == (kept \ ek'.gray) \cup (ek'.gray \ kept)
          IN IF Cardinality(differ) * ThresholdScale > ek.threshold * NPixels
             THEN /\ Len(ek'.selected) = Len(ek.selected) + 1
                  /\ ek'.selected[Len(ek'.selected)].frame = ek'.gray
                  /\ ek'.prev_frame = SomeFrame(ek'.gray)
             ELSE /\ ek'.selected = ek.selected
                  /\ ek'.keyframes = ek.keyframes
                  /\ ek'.prev_frame = ek.prev_frame]_vars

\* With threshold one half and every frame sampled: the frame at 0 kept, the
\* frame at 1 discarded, and the frame at 2, all bright, kept against the
\* dark frame at 0.
C17_Witness ==
    /\ ek.pc = "loop"
    /\ ek.frame_interval = 1
    /\ 2 * ek.threshold = ThresholdScale
    /\ ek.frame_count = 3
    /\ Len(ek.selected) = 2
    /\ ek.selected[1].frame = {}
    /\ ek.selected[2].timestamp.num = 2
    /\ ek.selected[2].frame = 1..NPixels
    /\ ek.prev_frame = SomeFrame(1..NPixels)

\* The calls of _save_keyframe that wrote their image.
Written == SelectSeq(ek.selected, LAMBDA c : c.ok)

\* C18: a call of _save_keyframe that cannot write its image raises
\* nothing: the list stays as it was, the loop goes on to the next frame,
\* and the list, which is what is returned, holds the keyframes whose image
\* was written and no other.
C18_FailedSaveIsSkipped ==
    /\ [](ek.pc \in {"loop", "returned"} =>
            /\ Len(ek.keyframes) = Len(Written)
            /\ \A j \in 1..Len(ek.keyframes) :
                  /\ ek.keyframes[j].timestamp = Written[j].timestamp
                  /\ ek.keyframes[j].path \in ek.saved
            /\ ek.pc = "returned" => ek.result.value = ek.keyframes)
    /\ [][(/\ ek.pc = "loop"
           /\ Len(ek'.selected) = Len(ek.selected) + 1
           /\ ~ek'.selected[Len(ek'.selected)].ok) =>
             /\ ek'.keyframes = ek.keyframes
             /\ ek'.saved = ek.saved
             /\ ek'.pc = "loop"
             /\ ek'.frame_count = ek.frame_count + 1]_vars

\* Of two frames handed to _save_keyframe the first could not be written,
\* and the list returned holds the second alone.
C18_Witness ==
    /\ ek.pc = "returned"
    /\ Len(ek.selected) = 2
    /\ ~ek.selected[1].ok
    /\ ek.selected[2].ok
    /\ Len(ek.result.value) = 1
    /\ ek.result.value[1].timestamp = ek.selected[2].timestamp

\* The lines of the transcript chunks (those with no doc_type) of a merged
\* sequence, read in order.
TranscriptLines(unified_chunks) ==
    Flatten([j \in 1..Len(unified_chunks) |->
                IF "doc_type" \in DOMAIN unified_chunks[j] THEN <<>>
                ELSE Lines(unified_chunks[j].text)])

\* C21: when merge_sources is given a non-empty transcript and returns, the
\* returned chunks hold the text of every segment of the transcript, the
\* returned mode is video and the returned sequence is not empty, whatever
\* the keyframes and the document chunks are.
C21_TranscriptNeverDropped ==
    (ms.pc = "returned" /\ Truthy(ms.video_transcript)) =>
        /\ ms.result.value.unified_chunks # <<>>
        /\ ms.result.value.input_mode = "video"
        /\ TranscriptLines(ms.result.value.unified_chunks)
              = [i \in 1..Len(ms.video_transcript.list) |->
                    Fmt(ms.video_transcript.list[i])]

=============================================================================
